---- MODULE Spec2Model ----
(***************************************************************************)
(* Model of the authentication form (AuthModule: view switching, local     *)
(* password validation, asynchronous sign-in / sign-up submission) and of  *)
(* the backend bearer-token middleware (authMiddleware) that guards        *)
(* GET /api/protected.                                                     *)
(*                                                                         *)
(* Strings the code inspects character by character (passwords, the        *)
(* Authorization header) are sequences of one-character strings; strings   *)
(* the code only stores and displays (messages) are plain strings.         *)
(***************************************************************************)
EXTENDS Integers, Sequences, FiniteSets, TLC

\* ------------------------------------------------------------------ bounds
\* Submit gestures (click on the submit button / Enter in a field) per form.
MaxSubmits == 3
\* HTTP requests the backend receives.
MaxRequests == 2
\* Longest password handed to the validator.
MaxPwLen == 12

\* JavaScript null / undefined.
None == "null"

\* ------------------------------------------------------------- characters
UpperCase == {"A", "P"}
LowerCase == {"a", "b", "c", "d", "o", "r", "s", "w", "x"}
Digit == {"1", "2", "3", "4", "5"}
Special == {"@", "$", "!", "%", "*", "?", "&"}

\* regexp.test(p): some character of p lies in the class.
Test(class, p) == \E i \in 1..Len(p) : p[i] \in class

\* ------------------------------------------------------------- Validator
MsgLength == "Password must be at least 8 characters."
MsgUpper == "Password must contain an uppercase letter."
MsgLower == "Password must contain a lowercase letter."
MsgNumber == "Password must contain a number."
MsgSpecial == "Password must contain a special character."
MsgMismatch == "Passwords do not match."
MsgLoggedIn == "Logged in successfully!"
MsgSignedUp == "Signup successful! Please check your email for verification."

\* Mutant: the length rule asks for six characters (password.length < 6).
validatePasswordMinSix(p) ==
    IF Len(p) < 6 THEN MsgLength
    ELSE IF ~Test(UpperCase, p) THEN MsgUpper
    ELSE IF ~Test(LowerCase, p) THEN MsgLower
    ELSE IF ~Test(Digit, p) THEN MsgNumber
    ELSE IF ~Test(Special, p) THEN MsgSpecial
    ELSE None

\* Mutant: the lowercase rule is tested before the uppercase rule.
validatePasswordLowerFirst(p) ==
    IF Len(p) < 8 THEN MsgLength
    ELSE IF ~Test(LowerCase, p) THEN MsgLower
    ELSE IF ~Test(UpperCase, p) THEN MsgUpper
    ELSE IF ~Test(Digit, p) THEN MsgNumber
    ELSE IF ~Test(Special, p) THEN MsgSpecial
    ELSE None

validatePassword(p) ==
    IF Len(p) < 8 THEN MsgLength
    ELSE IF ~Test(UpperCase, p) THEN MsgUpper
    ELSE IF ~Test(LowerCase, p) THEN MsgLower
    ELSE IF ~Test(Digit, p) THEN MsgNumber
    ELSE IF ~Test(Special, p) THEN MsgSpecial
    ELSE None

StrengthPoint(b) == IF b THEN 1 ELSE 0

\* Mutant: the label thresholds are strict (score < 2, score < 4).
getPasswordStrengthStrict(p) ==
    LET score == StrengthPoint(Len(p) >= 8) + StrengthPoint(Len(p) >= 12)
                 + StrengthPoint(Test(UpperCase, p)) + StrengthPoint(Test(LowerCase, p))
                 + StrengthPoint(Test(Digit, p)) + StrengthPoint(Test(Special, p))
    IN  IF score < 2 THEN [score |-> score, label |-> "Weak", color |-> "#ef4444"]
        ELSE IF score < 4 THEN [score |-> score, label |-> "Medium", color |-> "#f59e0b"]
        ELSE [score |-> score, label |-> "Strong", color |-> "#22c55e"]

getPasswordStrength(p) ==
    LET score == StrengthPoint(Len(p) >= 8) + StrengthPoint(Len(p) >= 12)
                 + StrengthPoint(Test(UpperCase, p)) + StrengthPoint(Test(LowerCase, p))
                 + StrengthPoint(Test(Digit, p)) + StrengthPoint(Test(Special, p))
    IN  IF score <= 2 THEN [score |-> score, label |-> "Weak", color |-> "#ef4444"]
        ELSE IF score <= 4 THEN [score |-> score, label |-> "Medium", color |-> "#f59e0b"]
        ELSE [score |-> score, label |-> "Strong", color |-> "#22c55e"]

\* ------------------------------------------------------ form input values
Empty == << >>
PwGood == <<"A", "b", "c", "1", "2", "3", "4", "5", "!">>
\* "Password1!", the valid password of the validator's documented scenario.
PwGood2 == <<"P", "a", "s", "s", "w", "o", "r", "d", "1", "!">>
PwNoUpper == <<"p", "a", "s", "s", "w", "o", "r", "d">>
PwShort == <<"A", "b", "1", "!">>

\* What the user can type into the password / confirm-password inputs.
PasswordInputs == {Empty, PwGood, PwNoUpper, PwShort}
\* The remaining text inputs only matter as empty / filled and as payload.
EmailInputs == {"", "a@b.c"}
NameInputs == {"", "Ann"}
PhoneInputs == {"", "+15550100"}

\* ------------------------------------------------- identity provider side
\* How a sign-in / sign-up call can settle: resolved without error, resolved
\* with an error object, or rejected (thrown); the handlers read err.message.
AuthOutcomes ==
    { [kind |-> "ok", message |-> None],
      [kind |-> "error", message |-> "Invalid login credentials"],
      [kind |-> "error", message |-> "User already registered"],
      [kind |-> "throw", message |-> "Failed to fetch"] }

NoOutcome == [kind |-> "none", message |-> None]

VARIABLES
    view,             \* 'login' | 'signup'
    email, password, confirmPassword,
    firstName, lastName, phone,
    error, loading, message,
    inflight,         \* sign-in / sign-up calls awaiting the provider
    signInCalls,      \* remote sign-in operations invoked so far
    signUpCalls,      \* remote sign-up operations invoked so far
    submits,          \* submit gestures made so far
    lastEvent         \* the event handled last

VARIABLES
    pwInput,          \* validator: the password handed to the two functions
    pwVerdict,        \* validator: what validatePassword returned for it
    pwStrength        \* validator: what getPasswordStrength returned for it

valVars == <<pwInput, pwVerdict, pwStrength>>

VARIABLES
    requests,         \* backend: each HTTP request and how far it got
    introspections    \* backend: the supabase.auth.getUser calls made, in order, each
                      \* with the answer the provider gave once it has settled

gateVars == <<requests, introspections>>

formVars == <<view, email, password, confirmPassword, firstName, lastName, phone, error, loading, message,
              inflight, signInCalls, signUpCalls, submits, lastEvent>>

\* ------------------------------------------------------------ AuthModule
\* The view rendered after a click on the switch link.
OtherView(v) == IF v = "login" THEN "signup" ELSE "login"

\* Mutant: onSubmit is bound to handleLogin in both views.
OperationOfAlwaysSignIn(v) == "signIn"

\* The remote operation the form's onSubmit handler of view v invokes.
OperationOf(v) == IF v = "login" THEN "signIn" ELSE "signUp"

\* Inputs marked `required` that are rendered in the current view are filled;
\* the browser dispatches no submit event otherwise.
RequiredFilled ==
    /\ email # ""
    /\ password # Empty
    /\ view = "signup" =>
          /\ confirmPassword # Empty
          /\ firstName # ""
          /\ lastName # ""
          /\ phone # ""

\* Mutant: the submit button is never disabled.
SubmitNeverDisabled == FALSE

\* <button type="submit" disabled={loading}>: a disabled default button
\* swallows both the click and the implicit (Enter) submission.
SubmitDisabled == loading

\* The record of one awaited provider call; `abandoned` is set once the user
\* has switched view while the call was in flight.
NewCall(op) ==
    [id |-> signInCalls + signUpCalls + 1, op |-> op, email |-> email,
     password |-> password,
     phone |-> IF op = "signUp" THEN phone ELSE None,
     data |-> IF op = "signUp"
              THEN [first_name |-> firstName, last_name |-> lastName, phone |-> phone]
              ELSE [first_name |-> None, last_name |-> None, phone |-> None],
     abandoned |-> FALSE]

\* handleLogin up to its await: setLoading(true); setError(null); signIn(...).
handleLogin ==
    /\ loading' = TRUE
    /\ error' = None
    /\ inflight' = inflight \cup {NewCall("signIn")}
    /\ signInCalls' = signInCalls + 1
    /\ UNCHANGED <<message, signUpCalls>>

\* Mutant: the confirmation is compared before the composition rules run.
SignupLocalErrorMismatchFirst(p, cp) ==
    IF p # cp THEN MsgMismatch
    ELSE IF validatePassword(p) # None THEN validatePassword(p)
    ELSE None

\* Mutant: the confirmation is never compared.
SignupLocalErrorNoMismatch(p, cp) ==
    IF validatePassword(p) # None THEN validatePassword(p) ELSE None

\* The message of the local checks at the head of handleSignup, or None.
SignupLocalError(p, cp) ==
    IF validatePassword(p) # None THEN validatePassword(p)
    ELSE IF p # cp THEN MsgMismatch
    ELSE None

\* handleSignup up to its await (or to its early return).
handleSignup ==
    IF SignupLocalError(password, confirmPassword) # None
    THEN /\ error' = SignupLocalError(password, confirmPassword)
         /\ loading' = FALSE
         /\ UNCHANGED <<message, inflight, signInCalls, signUpCalls>>
    ELSE /\ loading' = TRUE
         /\ error' = None
         /\ inflight' = inflight \cup {NewCall("signUp")}
         /\ signUpCalls' = signUpCalls + 1
         /\ UNCHANGED <<message, signInCalls>>

\* The fixed confirmation each handler shows on success.
SuccessMessage(op) == IF op = "signIn" THEN MsgLoggedIn ELSE MsgSignedUp

\* Mutant: a failed call is sent again instead of being reported.
SettleWithRetry(c, out) ==
    IF out.kind = "ok"
    THEN /\ inflight' = inflight \ {c}
         /\ message' = SuccessMessage(c.op)
         /\ error' = error
         /\ loading' = FALSE
         /\ UNCHANGED <<signInCalls, signUpCalls>>
    ELSE /\ inflight' = (inflight \ {c}) \cup
                            {[c EXCEPT !.id = signInCalls + signUpCalls + 1]}
         /\ signInCalls' = signInCalls + (IF c.op = "signIn" THEN 1 ELSE 0)
         /\ signUpCalls' = signUpCalls + (IF c.op = "signUp" THEN 1 ELSE 0)
         /\ UNCHANGED <<error, message, loading>>

\* Mutant: setLoading(false) sits at the end of the try block, not in finally.
SettleWithoutFinally(c, out) ==
    /\ inflight' = inflight \ {c}
    /\ IF out.kind = "ok"
       THEN /\ message' = SuccessMessage(c.op)
            /\ error' = error
            /\ loading' = FALSE
       ELSE /\ error' = out.message
            /\ message' = message
            /\ loading' = loading
    /\ UNCHANGED <<signInCalls, signUpCalls>>

\* The rest of handleLogin / handleSignup once the awaited call c settles with
\* outcome out: try / catch / finally.
Settle(c, out) ==
    /\ inflight' = inflight \ {c}
    /\ IF out.kind = "ok"
       THEN /\ message' = SuccessMessage(c.op)
            /\ error' = error
       ELSE /\ error' = out.message
            /\ message' = message
    /\ loading' = FALSE
    /\ UNCHANGED <<signInCalls, signUpCalls>>

\* Mutant: the switch link forgets to clear the success message.
SwitchEffectKeepsMessage ==
    /\ view' = OtherView(view)
    /\ error' = None
    /\ UNCHANGED <<message, loading>>

\* onClick of the switch link.
SwitchEffect ==
    /\ view' = OtherView(view)
    /\ error' = None
    /\ message' = None
    /\ UNCHANGED loading

Event(type, op, out) == [type |-> type, op |-> op, outcome |-> out]

\* --- actions of the form
\* What no keystroke changes.
KeepStatus ==
    UNCHANGED <<view, error, loading, message, inflight, signInCalls, signUpCalls, submits,
                gateVars, valVars>>

SetEmail ==
    /\ \E v \in EmailInputs : v # email /\ email' = v
    /\ lastEvent' = Event("edit", None, NoOutcome)
    /\ KeepStatus
    /\ UNCHANGED <<password, confirmPassword, firstName, lastName, phone>>

\* The name and phone inputs are rendered in the signup view only.
SetFirstName ==
    /\ view = "signup"
    /\ \E v \in NameInputs : v # firstName /\ firstName' = v
    /\ lastEvent' = Event("edit", None, NoOutcome)
    /\ KeepStatus
    /\ UNCHANGED <<email, password, confirmPassword, lastName, phone>>

SetLastName ==
    /\ view = "signup"
    /\ \E v \in NameInputs : v # lastName /\ lastName' = v
    /\ lastEvent' = Event("edit", None, NoOutcome)
    /\ KeepStatus
    /\ UNCHANGED <<email, password, confirmPassword, firstName, phone>>

SetPhone ==
    /\ view = "signup"
    /\ \E v \in PhoneInputs : v # phone /\ phone' = v
    /\ lastEvent' = Event("edit", None, NoOutcome)
    /\ KeepStatus
    /\ UNCHANGED <<email, password, confirmPassword, firstName, lastName>>

SetPassword ==
    /\ \E v \in PasswordInputs : v # password /\ password' = v
    /\ lastEvent' = Event("edit", None, NoOutcome)
    /\ KeepStatus
    /\ UNCHANGED <<email, confirmPassword, firstName, lastName, phone>>

SetConfirmPassword ==
    /\ view = "signup"
    /\ \E v \in PasswordInputs : v # confirmPassword /\ confirmPassword' = v
    /\ lastEvent' = Event("edit", None, NoOutcome)
    /\ KeepStatus
    /\ UNCHANGED <<email, password, firstName, lastName, phone>>

\* A submit gesture.  The form's onSubmit handler runs unless the button is
\* disabled or a required input is empty.
Submit ==
    /\ submits < MaxSubmits
    /\ submits' = submits + 1
    /\ IF SubmitDisabled \/ ~RequiredFilled
       THEN /\ lastEvent' = Event("blocked", OperationOf(view), NoOutcome)
            /\ UNCHANGED <<error, loading, message, inflight, signInCalls, signUpCalls>>
       ELSE /\ lastEvent' = Event("submit", OperationOf(view), NoOutcome)
            /\ IF OperationOf(view) = "signIn" THEN handleLogin ELSE handleSignup
    /\ UNCHANGED <<view, email, password, confirmPassword, firstName, lastName, phone,
                   gateVars, valVars>>

SwitchView ==
    /\ SwitchEffect
    /\ inflight' = {[c EXCEPT !.abandoned = TRUE] : c \in inflight}
    /\ lastEvent' = Event("switch", None, NoOutcome)
    /\ UNCHANGED <<email, password, confirmPassword, firstName, lastName, phone,
                   signInCalls, signUpCalls, submits, gateVars, valVars>>

\* The provider answers (or the call throws) and the suspended handler resumes.
Respond ==
    \E c \in inflight, out \in AuthOutcomes :
        /\ Settle(c, out)
        /\ lastEvent' = Event("response", c.op, out)
        /\ UNCHANGED <<view, email, password, confirmPassword, firstName, lastName,
                       phone, submits, gateVars, valVars>>

FormInit ==
    /\ view = "login"
    /\ email = ""
    /\ password = Empty
    /\ confirmPassword = Empty
    /\ firstName = ""
    /\ lastName = ""
    /\ phone = ""
    /\ error = None
    /\ loading = FALSE
    /\ message = None
    /\ inflight = {}
    /\ signInCalls = 0
    /\ signUpCalls = 0
    /\ submits = 0
    /\ lastEvent = Event("mount", None, NoOutcome)

FormNext ==
    \/ SetEmail
    \/ SetPassword
    \/ SetConfirmPassword
    \/ SetFirstName
    \/ SetLastName
    \/ SetPhone
    \/ Submit
    \/ SwitchView
    \/ Respond

\* --- the request status the form displays
Pending == loading
Failed == ~loading /\ error # None
Succeeded == ~loading /\ message # None
Idle == ~loading /\ error = None /\ message = None

\* ---------------------------------------------------------- TokenGate
\* Authorization header values a client can send (character sequences).
HdrBearerT1 == <<"B", "e", "a", "r", "e", "r", " ", "t", "1">>
HdrBearerT2 == <<"B", "e", "a", "r", "e", "r", " ", "t", "2">>
HdrBasicT1 == <<"B", "a", "s", "i", "c", " ", "t", "1">>
HdrBearerOnly == <<"B", "e", "a", "r", "e", "r">>
HdrBearerBlank == <<"B", "e", "a", "r", "e", "r", " ">>
HdrTwoSpaces == <<"B", "e", "a", "r", "e", "r", " ", " ", "t", "1">>
HdrBare == <<"t", "1">>

NoHeader == [present |-> FALSE, value |-> << >>]
Header(v) == [present |-> TRUE, value |-> v]

Headers ==
    {NoHeader} \cup
    {Header(v) : v \in {HdrBearerT1, HdrBearerT2, HdrBasicT1, HdrBearerOnly,
                        HdrBearerBlank, HdrTwoSpaces, HdrBare}}

Paths == {"/", "/api/protected"}
Users == {"alice", "bob"}

\* How supabase.auth.getUser(token) can settle: resolved with { data: { user },
\* error } (message is error's text, None without error), or rejected (thrown).
IntrospectOutcomes ==
    {[kind |-> "user", user |-> u, message |-> None] : u \in Users} \cup
    {[kind |-> "error", user |-> None, message |-> m] : m \in {"invalid JWT", "token is expired"}} \cup
    {[kind |-> "error", user |-> "alice", message |-> "token is expired"],
     [kind |-> "nouser", user |-> None, message |-> None],
     [kind |-> "throw", user |-> None, message |-> "fetch failed"]}

NoResult == [kind |-> "none", user |-> None, message |-> None]

\* String.prototype.split(' '): the pieces of s between single spaces.
RECURSIVE SplitFrom(_, _, _)
SplitFrom(s, i, piece) ==
    IF i > Len(s) THEN <<piece>>
    ELSE IF s[i] = " " THEN <<piece>> \o SplitFrom(s, i + 1, << >>)
    ELSE SplitFrom(s, i + 1, Append(piece, s[i]))

split(s) == SplitFrom(s, 1, << >>)

Undefined == [defined |-> FALSE, value |-> << >>]

\* req.headers.authorization?.split(' ')[1]
TokenOf(h) ==
    IF ~h.present THEN Undefined
    ELSE IF Len(split(h.value)) >= 2 THEN [defined |-> TRUE, value |-> split(h.value)[2]]
    ELSE Undefined

\* Mutant: only an empty token counts as missing (token === '').
MissingTokenEmptyOnly(h) == TokenOf(h).defined /\ TokenOf(h).value = << >>

\* !token
MissingToken(h) == ~TokenOf(h).defined \/ TokenOf(h).value = << >>

\* Mutant: only a missing user rejects; a reported error is ignored.
InvalidTokenIgnoresError(out) == out.user = None

\* error || !user
InvalidToken(out) == out.message # None \/ out.user = None

\* Mutant: the rejection echoes the provider's error text.
InvalidTokenReasonEcho(out) == IF out.message # None THEN out.message ELSE "Invalid token"

\* The reason string of the rejection that follows introspection outcome out.
InvalidTokenReason(out) == "Invalid token"

Reqs == 1..MaxRequests

NewRequest ==
    [pc |-> "idle", path |-> None, header |-> NoHeader, status |-> 0, body |-> None,
     user |-> None, handlerRan |-> FALSE, token |-> Undefined, result |-> NoResult]

\* res.status(code).json({ error: text })
Rejected(q, code, text) == [q EXCEPT !.pc = "done", !.status = code, !.body = text]

\* GET /: res.send('Secure Backend API Running'); no middleware on this route.
Liveness(r) ==
    /\ requests[r].pc = "idle"
    /\ \E h \in Headers :
         requests' = [requests EXCEPT ![r] =
             [@ EXCEPT !.pc = "done", !.path = "/", !.header = h, !.status = 200,
                       !.body = "Secure Backend API Running"]]
    /\ UNCHANGED introspections
    /\ UNCHANGED <<formVars, valVars>>

\* Mutant: a token that was admitted before is admitted again from a cache,
\* without asking the provider.
ReceiveCached(r) ==
    /\ requests[r].pc = "idle"
    /\ \E h \in Headers :
         LET q == [requests[r] EXCEPT !.path = "/api/protected", !.header = h]
             hits == {r0 \in Reqs : requests[r0].handlerRan
                                     /\ requests[r0].token = TokenOf(h)}
         IN
         IF MissingToken(h)
         THEN /\ requests' = [requests EXCEPT ![r] = Rejected(q, 401, "Missing token")]
              /\ UNCHANGED introspections
         ELSE IF hits # {}
         THEN /\ \E r0 \in hits :
                   requests' = [requests EXCEPT ![r] =
                       [q EXCEPT !.pc = "done", !.token = TokenOf(h),
                                 !.result = requests[r0].result,
                                 !.user = requests[r0].user, !.handlerRan = TRUE,
                                 !.status = 200, !.body = "This is protected data"]]
              /\ UNCHANGED introspections
         ELSE /\ requests' = [requests EXCEPT ![r] =
                     [q EXCEPT !.pc = "awaiting", !.token = TokenOf(h)]]
              /\ introspections' = Append(introspections,
                     [req |-> r, token |-> TokenOf(h), answer |-> NoResult])
    /\ UNCHANGED <<formVars, valVars>>

\* GET /api/protected arrives: authMiddleware runs up to its await, or to its
\* early return.
Receive(r) ==
    /\ requests[r].pc = "idle"
    /\ \E h \in Headers :
         LET q == [requests[r] EXCEPT !.path = "/api/protected", !.header = h] IN
         IF MissingToken(h)
         THEN /\ requests' = [requests EXCEPT ![r] = Rejected(q, 401, "Missing token")]
              /\ UNCHANGED introspections
         ELSE /\ requests' = [requests EXCEPT ![r] =
                     [q EXCEPT !.pc = "awaiting", !.token = TokenOf(h)]]
              /\ introspections' = Append(introspections,
                     [req |-> r, token |-> TokenOf(h), answer |-> NoResult])
    /\ UNCHANGED <<formVars, valVars>>

\* What becomes of request q when its getUser call settles with out.  On
\* success next() runs the route handler, which answers 200 with the attached
\* user.  The await sits in no try block: when getUser rejects, the
\* middleware's promise rejects, and depending on the Express version either
\* nothing is written (pc "hung") or the default error handler answers 500.
Resumed(q, out) ==
    LET q1 == [q EXCEPT !.result = out] IN
    IF out.kind = "throw"
    THEN {[q1 EXCEPT !.pc = "hung"],
          [q1 EXCEPT !.pc = "done", !.status = 500, !.body = "Internal Server Error"]}
    ELSE IF InvalidToken(out)
    THEN {Rejected(q1, 401, InvalidTokenReason(out))}
    ELSE {[q1 EXCEPT !.pc = "done", !.user = out.user, !.handlerRan = TRUE,
                     !.status = 200, !.body = "This is protected data"]}

\* The getUser call that request r is suspended on.
CallOf(r) == CHOOSE i \in 1..Len(introspections) : introspections[i].req = r

\* Mutant: the middleware keeps the request it is working on in a module-level
\* variable that every arrival overwrites, so a settled call resumes on the
\* request that arrived last.
IntrospectReturnSharedSlot(r) ==
    /\ requests[r].pc = "awaiting"
    /\ \E out \in IntrospectOutcomes :
         LET last == introspections[Len(introspections)].req IN
         /\ \E q \in Resumed(requests[last], out) :
               requests' = [requests EXCEPT ![last] = q]
         /\ introspections' = [introspections EXCEPT ![CallOf(r)].answer = out]
    /\ UNCHANGED <<formVars, valVars>>

\* getUser settles and authMiddleware resumes: the continuation of the await
\* closes over its own req, token, user and error.
IntrospectReturn(r) ==
    /\ requests[r].pc = "awaiting"
    /\ \E out \in IntrospectOutcomes :
         /\ \E q \in Resumed(requests[r], out) :
               requests' = [requests EXCEPT ![r] = q]
         /\ introspections' = [introspections EXCEPT ![CallOf(r)].answer = out]
    /\ UNCHANGED <<formVars, valVars>>

GateInit ==
    /\ requests = [r \in Reqs |-> NewRequest]
    /\ introspections = << >>

GateNext ==
    \E r \in Reqs :
        \/ Liveness(r)
        \/ Receive(r)
        \/ IntrospectReturn(r)

\* ---------------------------------------------------------- Validator runs
\* Passwords handed to the validator: every combination of character classes
\* (one representative each), padded with a character of no class to every
\* length up to MaxPwLen; each special character on its own; the form's inputs.
ClassPrefix(S) ==
    (IF "upper" \in S THEN <<"A">> ELSE << >>) \o
    (IF "lower" \in S THEN <<"a">> ELSE << >>) \o
    (IF "digit" \in S THEN <<"1">> ELSE << >>) \o
    (IF "special" \in S THEN <<"!">> ELSE << >>)

Pad(p, n) == p \o [i \in 1..(n - Len(p)) |-> "#"]

PwSamples ==
    {Pad(ClassPrefix(S), n) : S \in SUBSET {"upper", "lower", "digit", "special"},
                              n \in 0..MaxPwLen} \cup
    {Pad(<<"A", "a", "1", c>>, 8) : c \in Special} \cup
    PasswordInputs \cup {PwGood2}

Unset == "unset"
NoStrength == [score |-> -1, label |-> Unset, color |-> Unset]

\* validatePassword(pwInput) is called.
RunValidate ==
    /\ pwVerdict = Unset
    /\ pwVerdict' = validatePassword(pwInput)
    /\ UNCHANGED <<pwInput, pwStrength, formVars, gateVars>>

\* getPasswordStrength(pwInput) is called.
RunStrength ==
    /\ pwStrength = NoStrength
    /\ pwStrength' = getPasswordStrength(pwInput)
    /\ UNCHANGED <<pwInput, pwVerdict, formVars, gateVars>>

ValidatorIdle ==
    /\ pwInput = Empty
    /\ pwVerdict = Unset
    /\ pwStrength = NoStrength

ValidatorInit ==
    /\ pwInput \in PwSamples
    /\ pwVerdict = Unset
    /\ pwStrength = NoStrength

ValidatorNext ==
    \/ RunValidate
    \/ RunStrength

\* ------------------------------------------------------- specifications
vars == <<formVars, gateVars, valVars>>

Init == FormInit /\ GateInit /\ ValidatorIdle

\* The form alone (the backend receives nothing).
Spec == Init /\ [][FormNext]_vars

\* The backend alone (the form stays as mounted).
SpecGate == Init /\ [][GateNext]_vars

\* The form with a provider that answers every call (or lets it fail): the
\* awaited promise of a handler always settles.
SpecLive == Init /\ [][FormNext]_vars /\ WF_vars(Respond)

\* The two pure functions alone, applied to every sample password.
InitValidator == FormInit /\ GateInit /\ ValidatorInit

SpecValidator == InitValidator /\ [][ValidatorNext]_vars

\* ------------------------------------------------------------- properties
Calls == signInCalls + signUpCalls

\* A step in which the form's onSubmit handler ran.
HandlerRan == submits' = submits + 1 /\ lastEvent'.type = "submit"

\* C1: a response for an attempt abandoned by a view switch changes neither
\* the error, nor the success message, nor the status of the active view.
C1_StaleResponseIgnored ==
    [][\A c \in inflight :
          (c.abandoned /\ c \notin inflight')
              => (error' = error /\ message' = message /\ loading' = loading)]_vars

\* C2: at most one remote call is in flight at any time, and a submit gesture
\* made while a submission is pending starts no remote call.
C2_ReentryGuard ==
    /\ [](Cardinality(inflight) <= 1 /\ (inflight # {} => loading))
    /\ [][(submits' = submits + 1 /\ (loading \/ inflight # {}))
             => (inflight' = inflight /\ signInCalls' = signInCalls
                 /\ signUpCalls' = signUpCalls)]_vars

\* C2 witness: a submit gesture on a completely filled form was swallowed
\* while a call was in flight.
C2_Witness ==
    /\ lastEvent.type = "blocked"
    /\ RequiredFilled
    /\ loading
    /\ Cardinality(inflight) = 1

\* C3: a view switch toggles the view and leaves error and success message
\* empty, whatever the state it is taken from.
C3_SwitchClearsMessages ==
    [][lastEvent'.type = "switch"
          => (view' = OtherView(view) /\ view' # view
              /\ error' = None /\ message' = None)]_vars

\* C3 witness: the view was switched back to login while a sign-up call was
\* pending, and nothing is displayed.
C3_Witness ==
    /\ lastEvent.type = "switch"
    /\ view = "login"
    /\ \E c \in inflight : c.op = "signUp"
    /\ error = None /\ message = None

\* C4: immediately after a view switch the request status is idle.
C4_SwitchResetsToIdle == lastEvent.type = "switch" => Idle

\* C5: a signup submit whose password fails validatePassword ends failed with
\* exactly that message, is not pending, and invokes no remote operation, also
\* when the confirmation differs.
C5_InvalidPasswordFailsLocally ==
    [][(HandlerRan /\ view = "signup" /\ validatePassword(password) # None)
          => (/\ error' = validatePassword(password)
              /\ Failed'
              /\ ~Pending'
              /\ inflight' = inflight
              /\ signUpCalls' = signUpCalls
              /\ signInCalls' = signInCalls)]_vars

\* C5 witness: a signup was submitted with an invalid password and a different
\* confirmation, and the composition message is shown.
C5_Witness ==
    /\ lastEvent.type = "submit" /\ lastEvent.op = "signUp"
    /\ validatePassword(password) # None
    /\ password # confirmPassword
    /\ error = validatePassword(password)
    /\ ~loading

\* C6: a signup submit with password # confirmPassword invokes no remote
\* operation, and with a valid password it ends failed with the mismatch message.
C6_MismatchNeverCallsSignUp ==
    [][(HandlerRan /\ view = "signup" /\ password # confirmPassword)
          => (/\ inflight' = inflight
              /\ signUpCalls' = signUpCalls
              /\ signInCalls' = signInCalls
              /\ validatePassword(password) = None
                    => (error' = MsgMismatch /\ Failed'))]_vars

\* C6 witness: a valid password was submitted with a different confirmation.
C6_Witness ==
    /\ lastEvent.type = "submit" /\ lastEvent.op = "signUp"
    /\ validatePassword(password) = None
    /\ password # confirmPassword
    /\ error = MsgMismatch
    /\ signUpCalls = 0

\* C7: an accepted submission invokes its remote operation exactly once, no
\* step other than a submit invokes one, and the calls never outnumber the
\* submit gestures.
C7_OneCallPerSubmit ==
    /\ [](Calls <= submits)
    /\ [][/\ (HandlerRan /\ view = "login")
                => (signInCalls' = signInCalls + 1 /\ signUpCalls' = signUpCalls
                    /\ Cardinality(inflight') = Cardinality(inflight) + 1)
          /\ (HandlerRan /\ view = "signup" /\ validatePassword(password) = None
                /\ password = confirmPassword)
                => (signUpCalls' = signUpCalls + 1 /\ signInCalls' = signInCalls
                    /\ Cardinality(inflight') = Cardinality(inflight) + 1)
          /\ submits' = submits
                => (signInCalls' = signInCalls /\ signUpCalls' = signUpCalls
                    /\ {c.id : c \in inflight'} \subseteq {c.id : c \in inflight})]_vars

\* C7 witness: the second call has just failed and nothing is in flight.
C7_Witness ==
    /\ lastEvent.type = "response"
    /\ lastEvent.outcome.kind # "ok"
    /\ inflight = {}
    /\ Calls = 2
    /\ submits = 2

\* C8: a provider answer leaves the form succeeded with the operation's fixed
\* message and no error, or failed with the provider's text and no success
\* message.
C8_ResponseOutcome ==
    lastEvent.type = "response" =>
        IF lastEvent.outcome.kind = "ok"
        THEN Succeeded /\ message = SuccessMessage(lastEvent.op) /\ error = None
        ELSE Failed /\ error = lastEvent.outcome.message /\ message = None

\* C9: while a submission is pending neither an error nor a success message
\* of an earlier attempt is present.
C9_FreshPending == Pending => (error = None /\ message = None)

\* C10: a protected request without Authorization header is answered 401
\* "Missing token"; no introspection is made for it and its handler never runs.
C10_NoHeaderRejected ==
    \A r \in Reqs :
        (requests[r].path = "/api/protected" /\ ~requests[r].header.present)
            => /\ requests[r].pc = "done"
               /\ requests[r].status = 401
               /\ requests[r].body = "Missing token"
               /\ ~requests[r].handlerRan
               /\ requests[r].user = None
               /\ \A i \in 1..Len(introspections) : introspections[i].req # r

\* C10 witness: a protected request without header has been answered.
C10_Witness ==
    \E r \in Reqs :
        /\ requests[r].path = "/api/protected"
        /\ ~requests[r].header.present
        /\ requests[r].pc = "done"

\* The header has the form `Bearer <token>`: the scheme Bearer, one space, and
\* a non-empty token without spaces.
BearerForm(h) ==
    /\ h.present
    /\ Len(h.value) > 7
    /\ SubSeq(h.value, 1, 7) = <<"B", "e", "a", "r", "e", "r", " ">>
    /\ \A i \in 8..Len(h.value) : h.value[i] # " "

\* The getUser calls made for request r.
IntrospectionsOf(r) == {i \in 1..Len(introspections) : introspections[i].req = r}

\* C11: a protected request whose Authorization header is present but not of
\* the form `Bearer <token>` is answered 401 "Missing token" without any
\* introspection.
C11_NonBearerRejected ==
    \A r \in Reqs :
        (requests[r].path = "/api/protected" /\ requests[r].header.present
            /\ ~BearerForm(requests[r].header))
            => /\ requests[r].pc = "done"
               /\ requests[r].status = 401
               /\ requests[r].body = "Missing token"
               /\ IntrospectionsOf(r) = {}

\* C12: a protected request with a `Bearer <token>` header whose introspection
\* fails in any way (error, no user, rejection) is answered 401 "Invalid token".
C12_FailedIntrospectionRejected ==
    \A r \in Reqs :
        (BearerForm(requests[r].header) /\ requests[r].result.kind \in {"error", "nouser", "throw"})
            => /\ requests[r].pc = "done"
               /\ requests[r].status = 401
               /\ requests[r].body = "Invalid token"

\* C13: the protected handler ran for a request exactly when introspection
\* returned a user and no error; the attached user is then the returned one,
\* and a request that was not admitted has no user attached.
C13_HandlerIffUser ==
    \A r \in Reqs :
        LET q == requests[r] IN
        /\ q.handlerRan <=> (q.result.kind # "throw" /\ q.result.user # None
                             /\ q.result.message = None)
        /\ q.handlerRan => (q.user = q.result.user /\ q.status = 200)
        /\ ~q.handlerRan => q.user = None
        /\ q.status = 401 => (~q.handlerRan /\ q.user = None)

\* C13 witness: one request was admitted as bob, and another, for which the
\* provider reported an error together with a user, was rejected.
C13_Witness ==
    \E r1, r2 \in Reqs :
        /\ requests[r1].handlerRan /\ requests[r1].user = "bob"
        /\ requests[r2].status = 401
        /\ requests[r2].result.user # None /\ requests[r2].result.message # None

\* C14: every 401 carries one of the two fixed reasons, and two requests that
\* differ only in the text of the provider's introspection error get the same
\* response.
C14_FixedReasons ==
    /\ \A r \in Reqs :
          requests[r].status = 401 => requests[r].body \in {"Missing token", "Invalid token"}
    /\ \A r1, r2 \in Reqs :
          (/\ requests[r1].header = requests[r2].header
           /\ requests[r1].path = requests[r2].path
           /\ requests[r1].result.kind = "error" /\ requests[r2].result.kind = "error"
           /\ requests[r1].result.user = requests[r2].result.user)
              => (requests[r1].status = requests[r2].status
                  /\ requests[r1].body = requests[r2].body)

\* C14 witness: the same header was rejected twice, the provider's error text
\* differing.
C14_Witness ==
    \E r1, r2 \in Reqs :
        /\ requests[r1].header = requests[r2].header
        /\ requests[r1].result.kind = "error" /\ requests[r2].result.kind = "error"
        /\ requests[r1].result.message # requests[r2].result.message
        /\ requests[r1].status = 401 /\ requests[r2].status = 401
        /\ requests[r1].body = "Invalid token"

\* The five composition rules, in their documented order.
RuleHolds(i, p) ==
    CASE i = 1 -> Len(p) >= 8
      [] i = 2 -> \E k \in DOMAIN p : p[k] \in UpperCase
      [] i = 3 -> \E k \in DOMAIN p : p[k] \in LowerCase
      [] i = 4 -> \E k \in DOMAIN p : p[k] \in Digit
      [] i = 5 -> \E k \in DOMAIN p : p[k] \in {"@", "$", "!", "%", "*", "?", "&"}

RuleMessage == <<MsgLength, MsgUpper, MsgLower, MsgNumber, MsgSpecial>>

FirstFailingRule(p) ==
    CHOOSE i \in 1..5 : ~RuleHolds(i, p) /\ \A j \in 1..(i - 1) : RuleHolds(j, p)

\* C15: validatePassword returns the message of the first failing rule in the
\* order length, uppercase, lowercase, digit, special, and null exactly when
\* all five rules pass.
C15_FirstFailingRule ==
    pwVerdict # Unset =>
        /\ (pwVerdict = None) <=> (\A i \in 1..5 : RuleHolds(i, pwInput))
        /\ pwVerdict # None => pwVerdict = RuleMessage[FirstFailingRule(pwInput)]
        /\ Len(pwInput) < 8 => pwVerdict = MsgLength
        /\ pwInput = PwNoUpper => pwVerdict = MsgUpper
        /\ pwInput = PwGood2 => pwVerdict = None

\* C15 witness: a password of length >= 8 lacking both an uppercase and a
\* lowercase letter got the uppercase message.
C15_Witness ==
    /\ pwVerdict = MsgUpper
    /\ Len(pwInput) >= 8
    /\ ~RuleHolds(3, pwInput)

\* The six strength predicates.
StrengthPredicate(i, p) ==
    CASE i = 1 -> Len(p) >= 8
      [] i = 2 -> Len(p) >= 12
      [] i = 3 -> RuleHolds(2, p)
      [] i = 4 -> RuleHolds(3, p)
      [] i = 5 -> RuleHolds(4, p)
      [] i = 6 -> RuleHolds(5, p)

\* C16: the score is the number of satisfied strength predicates, within 0..6
\* and 0 for the empty password; the label is Weak for a score up to 2, Medium
\* for 3 and 4, Strong from 5.
C16_ScoreCountsPredicates ==
    pwStrength # NoStrength =>
        /\ pwStrength.score = Cardinality({i \in 1..6 : StrengthPredicate(i, pwInput)})
        /\ pwStrength.score \in 0..6
        /\ pwInput = Empty => pwStrength.score = 0
        /\ (pwStrength.label = "Weak") <=> (pwStrength.score <= 2)
        /\ (pwStrength.label = "Medium") <=> (pwStrength.score \in {3, 4})
        /\ (pwStrength.label = "Strong") <=> (pwStrength.score >= 5)
        /\ pwInput = PwGood2 => (pwStrength.score = 5 /\ pwStrength.label = "Strong")

\* C16 witness: a password at the boundary score 2 was labelled Weak.
C16_Witness ==
    /\ pwStrength.score = 2
    /\ pwStrength.label = "Weak"
    /\ Len(pwInput) >= 8

\* The ids of the calls in flight.
InflightIds == {c.id : c \in inflight}

\* C17: a sign-in call is started only by a submit handled in the login view
\* and a sign-up call only by one handled in the signup view.
C17_OperationMatchesView ==
    [][/\ signInCalls' # signInCalls => (HandlerRan /\ view = "login")
       /\ signUpCalls' # signUpCalls => (HandlerRan /\ view = "signup")
       /\ \A c \in inflight' :
             c.id \notin InflightIds
                => (/\ HandlerRan
                    /\ view = "login" => c.op = "signIn"
                    /\ view = "signup" => c.op = "signUp")]_vars

\* C17 witness: after a sign-up and a view switch, a submit in the login view
\* has started a sign-in.
C17_Witness ==
    /\ lastEvent.type = "submit"
    /\ view = "login"
    /\ signUpCalls >= 1
    /\ \E c \in inflight : c.op = "signIn"

\* C18: a pending form always has a call in flight to wake it, every answer
\* (success, error or throw) clears the pending flag and re-enables the submit
\* button, and so every pending submission eventually stops being pending.
C18_PendingEnds ==
    /\ [](loading => inflight # {})
    /\ [][lastEvent'.type = "response" => (~loading' /\ ~SubmitDisabled')]_vars
    /\ (loading ~> ~loading)

\* C18 witness: the call threw, and the form is no longer pending and can be
\* submitted again.
C18_Witness ==
    /\ lastEvent.type = "response"
    /\ lastEvent.outcome.kind = "throw"
    /\ ~loading
    /\ ~SubmitDisabled
    /\ inflight = {}

\* C19: every protected request that carries a bearer token causes exactly one
\* introspection call, made with its own token, whatever was answered for
\* other requests with the same token; a token the provider no longer accepts
\* is rejected although it was admitted before.
C19_NoTokenCache ==
    /\ \A r \in Reqs :
          (requests[r].pc # "idle" /\ BearerForm(requests[r].header)
              /\ requests[r].path = "/api/protected")
              => /\ Cardinality(IntrospectionsOf(r)) = 1
                 /\ \A i \in IntrospectionsOf(r) :
                       introspections[i].token.value
                          = SubSeq(requests[r].header.value, 8, Len(requests[r].header.value))
                 /\ requests[r].result.kind \in {"error", "nouser"}
                       => (requests[r].status = 401 /\ ~requests[r].handlerRan)
    /\ Len(introspections)
          = Cardinality({r \in Reqs : requests[r].pc # "idle" /\ requests[r].token.defined})

\* C19 witness: two requests carried the same token; both were introspected,
\* one was admitted and the other rejected.
C19_Witness ==
    \E r1, r2 \in Reqs :
        /\ r1 # r2
        /\ BearerForm(requests[r1].header)
        /\ requests[r1].header = requests[r2].header
        /\ Len(introspections) = 2
        /\ requests[r1].handlerRan
        /\ requests[r2].status = 401 /\ requests[r2].result.kind = "nouser"

\* C20: the form shows exactly one request status; an error and a success
\* message are never present together.
C20_SingleStatus ==
    /\ ~(error # None /\ message # None)
    /\ Cardinality({st \in {"idle", "pending", "succeeded", "failed"} :
                      \/ st = "idle" /\ Idle
                      \/ st = "pending" /\ Pending
                      \/ st = "succeeded" /\ Succeeded
                      \/ st = "failed" /\ Failed}) = 1

\* C21: concurrent protected requests are isolated.  However the answers to
\* the pending getUser calls interleave, a request is admitted or rejected
\* according to the answer to its own call, that call carried the token of its
\* own header, and the user attached to it is the user of that answer; while
\* its call is pending nothing has been decided for it.
C21_RequestsIsolated ==
    \A r \in Reqs :
        LET q == requests[r] IN
        /\ q.pc = "awaiting" =>
              /\ Cardinality(IntrospectionsOf(r)) = 1
              /\ \A i \in IntrospectionsOf(r) :
                    /\ introspections[i].answer = NoResult
                    /\ introspections[i].token = TokenOf(q.header)
              /\ q.result = NoResult /\ q.user = None /\ ~q.handlerRan /\ q.status = 0
        /\ q.result # NoResult =>
              /\ Cardinality(IntrospectionsOf(r)) = 1
              /\ \A i \in IntrospectionsOf(r) :
                    LET a == introspections[i].answer IN
                    /\ introspections[i].token = TokenOf(q.header)
                    /\ a = q.result
                    /\ q.handlerRan <=> (a.kind # "throw" /\ a.message = None /\ a.user # None)
                    /\ q.handlerRan => q.user = a.user /\ q.status = 200
                    /\ ~q.handlerRan => q.user = None /\ q.status \in {0, 401, 500}
        /\ q.user # None => q.result # NoResult

\* Two requests with different tokens were both suspended; the call made
\* second was answered first and its request admitted as bob while the other
\* request still waits with nothing decided.
C21_Witness ==
    \E a, b \in Reqs :
        /\ a # b
        /\ Len(introspections) = 2
        /\ introspections[1].req = a /\ introspections[2].req = b
        /\ introspections[1].token # introspections[2].token
        /\ requests[a].pc = "awaiting" /\ introspections[1].answer = NoResult
        /\ requests[b].handlerRan /\ requests[b].user = "bob"
        /\ introspections[2].answer.user = "bob"

\* C22: validator consistency.  Every password that validatePassword accepts
\* (result null) is scored at least 5 by getPasswordStrength and labelled
\* Strong.  (Nothing is claimed of the converse.)
C22_AcceptedIsStrong ==
    (pwVerdict = None /\ pwStrength # NoStrength) =>
        (pwStrength.score >= 5 /\ pwStrength.label = "Strong")

\* An accepted password at the boundary: eight to eleven characters, so that
\* both functions have run and the score is exactly 5.
C22_Witness ==
    /\ pwVerdict = None
    /\ Len(pwInput) < 12
    /\ pwStrength.score = 5
    /\ pwStrength.label = "Strong"

====
